---- MODULE Spec2Model ----
\* A model of the timing and async-lifecycle hooks of hooks-belt:
\* useFetch, useThrottle, useInterval and useDebounce.
\* Each hook is an independent state machine over its own variables and has
\* its own specification (SpecFetch, SpecThrottle, SpecInterval, SpecDebounce).
EXTENDS Integers, Sequences, FiniteSets, TLC

VARIABLES
    \* ---- useFetch ----
    fMounted,     \* the component using useFetch is mounted
    url,          \* the url argument of the last render
    options,      \* the options argument of the last render (an object reference)
    data,         \* useState data
    loading,      \* useState loading
    error,        \* useState error
    requests,     \* every fetchData() run started so far, in start order
    startedIdle,  \* history: loading was false when the latest run started
    \* ---- the clock (Date.now(), and the time base of the timers) ----
    now,
    \* ---- useThrottle ----
    tUnmount,     \* <<>> while the component using useThrottle is mounted, then <<[t, timers]>>
    func,         \* the func argument of the last render
    delay,        \* the delay argument of the last render
    lastExecuted, \* lastExecuted.current
    timeoutId,    \* timeoutId.current: NoTimer (undefined) or the id setTimeout returned
    tTimers,      \* the timeouts set by the throttled function and not yet fired or cleared
    tSet,         \* number of setTimeout calls so far (the next id is tSet + 1)
    tRenders,     \* number of renders that changed func or delay (each makes a new throttled function)
    calls,        \* log: the calls of the throttled function, [t, args, render]
    invoked,      \* log: the invocations of func, [t, args, func, trailing]
    \* ---- useInterval ----
    iUnmount,     \* <<>> while the component using useInterval is mounted, then <<[t, timers]>>
    callback,     \* the callback argument of the last render
    iDelay,       \* the delay argument of the last render (NullDelay: paused)
    savedCallback, \* savedCallback.current
    iTimers,      \* the intervals set and not cleared, [id, deadline, every]
    iSet,         \* number of setInterval calls so far
    armed,        \* log: the setInterval calls, [t, every, from]; from is the delay before
    fired,        \* log: the invocations made by interval callbacks, [t, cb, id]
    \* ---- useDebounce ----
    dUnmount,     \* <<>> while the component using useDebounce is mounted, then <<[t, timers]>>
    value,        \* the input of the last tick
    dDelay,       \* the delay of the last tick
    debouncedValue, \* the output
    dTimers,      \* the pending timer, if any: [id, deadline, value, change]
    dSet,         \* number of timers armed so far
    changes,      \* log: the input changes, [t, value, delay]
    published,    \* log: the publishes, [t, value, change]; the first is the initial output
    \* ---- usePrevious ----
    ref,          \* ref.current
    renders,      \* log: the value argument of every render so far
    returns,      \* log: what every render so far returned
    \* ---- useToggle ----
    initialValue, \* the argument of the first render: <<>> when omitted, else <<b>>
    toggleValue,  \* useState value
    ops,          \* log: the calls and re-renders so far
    seen,         \* log: the value after each of them
    \* ---- useOnClickOutside ----
    cMounted,     \* the component using useOnClickOutside is mounted
    element,      \* ref.current: NoElement (null) or the element
    handler,      \* the handler argument of the last render
    listeners,    \* the listeners on document, [type, handler]
    events,       \* log: the events dispatched on document, [type, target, mounted]
    handled       \* log: the invocations of a handler, [event, handler]

fetchVars == <<fMounted, url, options, data, loading, error, requests, startedIdle>>

throttleVars ==
    <<tUnmount, func, delay, lastExecuted, timeoutId, tTimers, tSet, tRenders, calls, invoked>>

intervalVars == <<iUnmount, callback, iDelay, savedCallback, iTimers, iSet, armed, fired>>

debounceVars == <<dUnmount, value, dDelay, debouncedValue, dTimers, dSet, changes, published>>

previousVars == <<ref, renders, returns>>

toggleVars == <<initialValue, toggleValue, ops, seen>>

clickVars == <<cMounted, element, handler, listeners, events, handled>>

vars ==
    <<fetchVars, now, throttleVars, intervalVars, debounceVars, previousVars, toggleVars, clickVars>>

\* null / undefined, for the values that are tuples, records or sequences.
Null == <<>>
\* null as the delay of useInterval (the other delays are numbers).
NullDelay == -1
\* undefined as timeoutId.current (the ids of timers start at 1).
NoTimer == 0

\* ------------------------------------------------------------------ bounds
\* fetchData() runs started in one behaviour.
MaxRequests == 3
\* The clock stops at MaxTime.
MaxTime == 6
\* Calls of the throttled function in one behaviour.
MaxCalls == 4
\* setInterval calls in one behaviour.
MaxIntervals == 2
\* Invocations made by interval handlers in one behaviour.
MaxFires == 3
\* Input changes of the debounced value in one behaviour.
MaxChanges == 3
\* Renders of usePrevious in one behaviour.
MaxValues == 4
\* Calls and re-renders of useToggle in one behaviour.
MaxOps == 4
\* Events dispatched on document in one behaviour.
MaxEvents == 3
\* Renders of useThrottle with another func or delay in one behaviour.
MaxRenders == 1

\* What the actions of one hook leave alone.
Untimed == <<previousVars, toggleVars, clickVars>>

OnlyFetch == UNCHANGED <<now, throttleVars, intervalVars, debounceVars, Untimed>>
OnlyThrottle == UNCHANGED <<fetchVars, intervalVars, debounceVars, Untimed>>
OnlyInterval == UNCHANGED <<fetchVars, throttleVars, debounceVars, Untimed>>
OnlyDebounce == UNCHANGED <<fetchVars, throttleVars, intervalVars, Untimed>>
OnlyPrevious ==
    UNCHANGED <<now, fetchVars, throttleVars, intervalVars, debounceVars, toggleVars, clickVars>>
OnlyToggle ==
    UNCHANGED <<now, fetchVars, throttleVars, intervalVars, debounceVars, previousVars, clickVars>>
OnlyClick ==
    UNCHANGED <<now, fetchVars, throttleVars, intervalVars, debounceVars, previousVars, toggleVars>>

\* ================================================================ useFetch
Urls == {"/a", "/b"}

\* options is compared by reference (useCallback dependency list): an options
\* object is a reference together with its content. Two objects with the same
\* content are two values.
OptionValues == {<<1, "GET">>, <<2, "GET">>}

\* How a fetchData() run can end: the body is decoded, fetch() rejects, the
\* response is not ok, response.json() rejects.
Outcomes == {"ok", "reject", "http", "json"}

\* The payload a run delivers. Each run delivers its own.
Payload(i) == <<"payload", i>>

\* What the catch of run i receives, <<class, message, run>>. fetch() and
\* response.json() reject with an Error or with some other value; the status
\* check throws an Error of its own.
Message(kind) ==
    CASE kind = "reject" -> "Network error"
      [] kind = "http" -> "HTTP error! status: 404"
      [] kind = "json" -> "Invalid JSON"

Thrown(i, kind, isError) ==
    IF kind = "http" \/ isError
    THEN <<"Error", Message(kind), i>>
    ELSE <<"other", "", i>>

\* What the catch stores: err instanceof Error ? err : new Error('An error occurred')
AsThrown(err) == err

AsError(err) == IF err[1] = "Error" THEN err ELSE <<"Error", "An error occurred", err[3]>>

\* The Error a failed run i sets.
Failure(i, kind, isError) == AsError(Thrown(i, kind, isError))

\* A useState setter. React drops the update of a component that is no longer
\* mounted: the state the consumer last saw stays as it is.
SetStateAlways(mounted, old, new) == new

SetState(mounted, old, new) == IF mounted THEN new ELSE old

NewRequest(u, o) == [url |-> u, options |-> o, st |-> "pending", detached |-> FALSE]

\* fetchData up to its first await: setLoading(true); setError(null); fetch(url, options)
StartFetchKeepError(u, o) ==
    /\ requests' = Append(requests, NewRequest(u, o))
    /\ startedIdle' = ~loading
    /\ loading' = SetState(fMounted, loading, TRUE)
    /\ UNCHANGED <<data, error>>

StartFetch(u, o) ==
    /\ requests' = Append(requests, NewRequest(u, o))
    /\ startedIdle' = ~loading
    /\ loading' = SetState(fMounted, loading, TRUE)
    /\ error' = SetState(fMounted, error, Null)
    /\ UNCHANGED data

\* useState<boolean>(true)
InitialLoadingFalse == FALSE

InitialLoading == TRUE

\* Mount: useState initial values, then the effect runs fetchData().
InitFetchHook ==
    /\ fMounted = TRUE
    /\ url \in Urls
    /\ options \in OptionValues
    /\ data = Null
    /\ loading = InitialLoading
    /\ error = Null
    /\ requests = <<NewRequest(url, options)>>
    /\ startedIdle = FALSE

\* A render with (u, o). fetchData is re-created when url or options changed
\* (by reference), and then the effect depending on it runs it.
FetchRender(u, o) ==
    /\ fMounted
    /\ url' = u
    /\ options' = o
    /\ IF u # url \/ o # options
       THEN /\ Len(requests) < MaxRequests
            /\ StartFetch(u, o)
       ELSE UNCHANGED <<data, loading, error, requests, startedIdle>>
    /\ UNCHANGED fMounted
    /\ OnlyFetch

\* refetch(): runs fetchData() with the current url and options.
Refetch ==
    /\ fMounted
    /\ Len(requests) < MaxRequests
    /\ StartFetch(url, options)
    /\ UNCHANGED <<fMounted, url, options>>
    /\ OnlyFetch

\* The runs after run i has settled: the run is over, and fetchData starts no
\* other (its catch stores the error and does nothing else).
SettleAndRetry(reqs, i, outcome, mounted) ==
    LET settled == [reqs EXCEPT ![i].st = IF outcome = "ok" THEN "ok" ELSE "failed",
                                ![i].detached = ~mounted]
    IN  IF outcome # "ok" /\ mounted /\ Len(reqs) < MaxRequests
        THEN Append(settled, NewRequest(reqs[i].url, reqs[i].options))
        ELSE settled

Settle(reqs, i, outcome, mounted) ==
    [reqs EXCEPT ![i].st = IF outcome = "ok" THEN "ok" ELSE "failed",
                 ![i].detached = ~mounted]

\* data after the catch block ran: the block sets the error and nothing else.
DataCleared(d) == Null

DataOnFailure(d) == d

\* loading after the finally block ran: setLoading(false).
LoadingKept(l) == l

LoadingAfterSettle(l) == FALSE

\* The rest of a fetchData() run i, after its awaits: try / catch / finally.
\* Nothing in it looks at which run is the latest one.
\* isError tells a rejection with an Error from one with another value; the
\* other two outcomes have one form each.
FetchSettle(i, outcome, isError) ==
    /\ requests[i].st = "pending"
    /\ outcome \in {"ok", "http"} => isError
    /\ requests' = Settle(requests, i, outcome, fMounted)
    /\ IF outcome = "ok"
       THEN /\ data' = SetState(fMounted, data, Payload(i))
            /\ UNCHANGED error
       ELSE /\ error' = SetState(fMounted, error, Failure(i, outcome, isError))
            /\ data' = SetState(fMounted, data, DataOnFailure(data))
    /\ loading' = SetState(fMounted, loading, LoadingAfterSettle(loading))
    /\ UNCHANGED <<fMounted, url, options, startedIdle>>
    /\ OnlyFetch

\* Unmount: the hook registers no cleanup; runs in flight stay in flight.
FetchUnmount ==
    /\ fMounted
    /\ fMounted' = FALSE
    /\ UNCHANGED <<url, options, data, loading, error, requests, startedIdle>>
    /\ OnlyFetch

\* ============================================================= useThrottle
Funcs == {"f", "g"}
Delays == {0, 2}
\* Date.now() at mount. lastExecuted starts at 0, so a clock below the delay is
\* one case and a clock at or above it another.
StartClocks == {0, 3}

\* The arguments of the n-th call: every call passes its own.
Args(n) == <<"args", n>>

Due(timers) == {tm \in timers : tm.deadline <= now}

\* clearTimeout(id): no effect when id is undefined or names no live timeout.
ClearTimeout(timers, id) == {tm \in timers : tm.id # id}

\* The mount. Which of the functions the first render passes makes no difference.
InitThrottleHook ==
    /\ tUnmount = Null
    /\ func = "f"
    /\ delay \in Delays
    /\ lastExecuted = 0
    /\ timeoutId = NoTimer
    /\ tTimers = {}
    /\ tSet = 0
    /\ tRenders = 0
    /\ calls = <<>>
    /\ invoked = <<>>

\* A render with (f, d). useCallback returns a new throttled function when
\* func or delay changed; the two refs are those of the first render.
ThrottleRender(f, d) ==
    /\ tUnmount = Null
    /\ <<f, d>> # <<func, delay>>
    /\ tRenders < MaxRenders
    /\ func' = f
    /\ delay' = d
    /\ tRenders' = tRenders + 1
    /\ UNCHANGED <<tUnmount, lastExecuted, timeoutId, tTimers, tSet, calls, invoked, now>>
    /\ OnlyThrottle

\* now - lastExecuted.current >= delay
ElapsedMore(t, last, d) == t - last > d

Elapsed(t, last, d) == t - last >= d

\* The throttled function, called with the arguments of call number Len(calls) + 1.
ThrottleCall ==
    /\ tUnmount = Null
    /\ Len(calls) < MaxCalls
    /\ LET args == Args(Len(calls) + 1) IN
       /\ calls' = Append(calls, [t |-> now, args |-> args, render |-> tRenders])
       /\ IF Elapsed(now, lastExecuted, delay)
          THEN /\ invoked' = Append(invoked, [t |-> now, args |-> args, func |-> func, trailing |-> FALSE])
               /\ lastExecuted' = now
               /\ UNCHANGED <<timeoutId, tTimers, tSet>>
          ELSE LET remainingDelay == delay - (now - lastExecuted) IN
               /\ tTimers' = ClearTimeout(tTimers, timeoutId) \cup
                     {[id |-> tSet + 1, deadline |-> now + remainingDelay, args |-> args,
                       func |-> func, render |-> tRenders]}
               /\ timeoutId' = tSet + 1
               /\ tSet' = tSet + 1
               /\ UNCHANGED <<invoked, lastExecuted>>
    /\ UNCHANGED <<tUnmount, func, delay, tRenders, now>>
    /\ OnlyThrottle

\* setTimeout is one-shot: a timeout that has run is gone.
TimeoutStays(timers, tm) == timers

TimeoutGone(timers, tm) == timers \ {tm}

\* lastExecuted.current after the callback of a timeout ran at t.
LastExecutedKept(t, last) == last

LastExecutedAfterTimeout(t, last) == t

\* The callback of a timeout: func(...args); lastExecuted.current = Date.now().
\* It runs whether or not the component is still mounted.
ThrottleTimeout(tm) ==
    /\ tm \in Due(tTimers)
    /\ tTimers' = TimeoutGone(tTimers, tm)
    /\ invoked' = Append(invoked, [t |-> now, args |-> tm.args, func |-> tm.func, trailing |-> TRUE])
    /\ lastExecuted' = LastExecutedAfterTimeout(now, lastExecuted)
    /\ UNCHANGED <<tUnmount, func, delay, timeoutId, tSet, tRenders, calls, now>>
    /\ OnlyThrottle

\* Unmount: the hook registers no cleanup.
ThrottleUnmount ==
    /\ tUnmount = Null
    /\ tUnmount' = <<[t |-> now, timers |-> tTimers]>>
    /\ UNCHANGED <<func, delay, lastExecuted, timeoutId, tTimers, tSet, tRenders, calls, invoked, now>>
    /\ OnlyThrottle

\* ============================================================= useInterval
Callbacks == {"X", "Y"}
IntervalDelays == {NullDelay, 0, 2, 3}

\* setInterval(handler, d): the timer service runs a period below 1 ms as 1 ms.
Every(d) == IF d < 1 THEN 1 ELSE d

\* clearInterval(id)
ClearInterval(timers, id) == {tm \in timers : tm.id # id}

\* The first effect, [callback]: savedCallback.current = callback. It runs on
\* mount and after a render whose callback is another one.
SaveCallbackOnce(saved, old, c) == saved

SaveCallback(saved, old, c) == IF c # old THEN c ELSE saved

\* The second effect, [delay]: nothing when delay === null, else setInterval.
SetUpInterval(timers, n, d) ==
    IF d = NullDelay
    THEN timers
    ELSE timers \cup {[id |-> n + 1, deadline |-> now + Every(d), every |-> Every(d)]}

\* Its cleanup, () => clearInterval(id); there is none when it returned early.
\* The id in the closure is the one the last setInterval returned.
CleanUpNothing(timers, n, d) == timers

CleanUpInterval(timers, n, d) == IF d = NullDelay THEN timers ELSE ClearInterval(timers, n)

InitIntervalHook ==
    /\ iUnmount = Null
    /\ callback \in Callbacks
    /\ iDelay \in IntervalDelays
    /\ savedCallback = callback
    /\ iTimers = SetUpInterval({}, 0, iDelay)
    /\ iSet = IF iDelay = NullDelay THEN 0 ELSE 1
    /\ armed = IF iDelay = NullDelay THEN <<>>
               ELSE <<[t |-> now, every |-> Every(iDelay), from |-> NullDelay]>>
    /\ fired = <<>>

\* Whether the second effect re-runs on a render: its dependencies are [delay].
DelayEffectRunsOnCallback(oldc, c, oldd, d) == d # oldd \/ c # oldc

DelayEffectRuns(oldc, c, oldd, d) == d # oldd

\* A render with (c, d), and the effects it triggers.
IntervalRender(c, d) ==
    /\ iUnmount = Null
    /\ callback' = c
    /\ iDelay' = d
    /\ savedCallback' = SaveCallback(savedCallback, callback, c)
    /\ IF DelayEffectRuns(callback, c, iDelay, d)
       THEN /\ d # NullDelay => iSet < MaxIntervals
            /\ iTimers' = SetUpInterval(CleanUpInterval(iTimers, iSet, iDelay), iSet, d)
            /\ iSet' = IF d = NullDelay THEN iSet ELSE iSet + 1
            /\ armed' = IF d = NullDelay THEN armed
                        ELSE Append(armed, [t |-> now, every |-> Every(d), from |-> iDelay])
       ELSE UNCHANGED <<iTimers, iSet, armed>>
    /\ UNCHANGED <<iUnmount, fired, now>>
    /\ OnlyInterval

\* The interval's handler: savedCallback.current?.()
IntervalFire(tm) ==
    /\ tm \in Due(iTimers)
    /\ Len(fired) < MaxFires
    /\ fired' = Append(fired, [t |-> now, cb |-> savedCallback, id |-> tm.id])
    /\ iTimers' = (iTimers \ {tm}) \cup {[tm EXCEPT !.deadline = @ + tm.every]}
    /\ UNCHANGED <<iUnmount, callback, iDelay, savedCallback, iSet, armed, now>>
    /\ OnlyInterval

\* Unmount: the cleanup of the second effect runs.
IntervalUnmount ==
    /\ iUnmount = Null
    /\ iUnmount' = <<[t |-> now, timers |-> iTimers]>>
    /\ iTimers' = CleanUpInterval(iTimers, iSet, iDelay)
    /\ UNCHANGED <<callback, iDelay, savedCallback, iSet, armed, fired, now>>
    /\ OnlyInterval

\* ============================================================= useDebounce
Values == {"a", "b"}
DebounceDelays == {2, 3}

\* Cancel the pending timer.
KeepPending(timers) == timers

CancelPending(timers) == {}

\* Arm a timer for d that will publish v, the input of change number n.
ArmPrevious(n, v, d) == {[id |-> dSet + 1, deadline |-> now + d, value |-> value, change |-> n]}

Arm(n, v, d) == {[id |-> dSet + 1, deadline |-> now + d, value |-> v, change |-> n]}

\* The output of the first tick with input v.
FirstOutputOther(v) == CHOOSE w \in Values : w # v

FirstOutput(v) == v

\* The pending timer after a tick that changed the delay to d and not the input.
PendingRearmed(timers, d) == {[tm EXCEPT !.deadline = now + d] : tm \in timers}

PendingAfterDelayChange(timers, d) == timers

\* First tick: the output is the input, at once, and no timer is armed.
InitDebounceHook ==
    /\ dUnmount = Null
    /\ value \in Values
    /\ dDelay \in DebounceDelays
    /\ debouncedValue = FirstOutput(value)
    /\ dTimers = {}
    /\ dSet = 0
    /\ changes = <<>>
    /\ published = <<[t |-> now, value |-> debouncedValue, change |-> 0]>>

\* A later tick with input v and delay d. An input that differs from the one
\* seen before cancels the pending timer and arms a new one for d; a new delay
\* alone leaves the pending timer as it is. A timer that is due fires first.
DebounceTick(v, d) ==
    /\ dUnmount = Null
    /\ Due(dTimers) = {}
    /\ value' = v
    /\ dDelay' = d
    /\ IF v # value
       THEN /\ Len(changes) < MaxChanges
            /\ changes' = Append(changes, [t |-> now, value |-> v, delay |-> d])
            /\ dTimers' = CancelPending(dTimers) \cup Arm(Len(changes) + 1, v, d)
            /\ dSet' = dSet + 1
       ELSE /\ dTimers' = IF d # dDelay THEN PendingAfterDelayChange(dTimers, d) ELSE dTimers
            /\ UNCHANGED <<changes, dSet>>
    /\ UNCHANGED <<dUnmount, debouncedValue, published, now>>
    /\ OnlyDebounce

\* The timer fires: the output becomes the input it was armed with.
DebounceTimeout(tm) ==
    /\ tm \in Due(dTimers)
    /\ dTimers' = dTimers \ {tm}
    /\ debouncedValue' = tm.value
    /\ published' = Append(published, [t |-> now, value |-> tm.value, change |-> tm.change])
    /\ UNCHANGED <<dUnmount, value, dDelay, dSet, changes, now>>
    /\ OnlyDebounce

\* Detach: cancel the pending timer. A timer that is due fires first.
DebounceUnmount ==
    /\ dUnmount = Null
    /\ Due(dTimers) = {}
    /\ dUnmount' = <<[t |-> now, timers |-> dTimers]>>
    /\ dTimers' = CancelPending(dTimers)
    /\ UNCHANGED <<value, dDelay, debouncedValue, dSet, changes, published, now>>
    /\ OnlyDebounce

\* ============================================================= usePrevious
\* The values passed to the hook; null and undefined are two of them.
PreviousValues == {"undefined", "null", "x", "y"}
Undefined == "undefined"

\* return ref.current: read during the render, before the effect of this
\* render has stored the new value.
ReturnedCurrent(r, v) == v

Returned(r, v) == r

\* The first render: useRef(undefined), the return, then the effect.
InitPreviousHook ==
    /\ renders \in {<<v>> : v \in PreviousValues}
    /\ returns = <<Returned(Undefined, renders[1])>>
    /\ ref = renders[1]

\* A later render with value v; the effect has no dependency list and runs
\* after every render: ref.current = value.
PreviousRender(v) ==
    /\ Len(renders) < MaxValues
    /\ renders' = Append(renders, v)
    /\ returns' = Append(returns, Returned(ref, v))
    /\ ref' = v
    /\ OnlyPrevious

\* =============================================================== useToggle
\* The argument of the first render: omitted, true or false.
Omitted == <<>>
InitialValues == {Omitted, <<TRUE>>, <<FALSE>>}

\* initialValue: boolean = false
InitialOf(arg) == IF arg = Omitted THEN FALSE ELSE arg[1]

\* setValue(prev => !prev)
AfterToggleTrue(v) == TRUE

AfterToggle(v) == ~v

InitToggleHook ==
    /\ initialValue \in InitialValues
    /\ toggleValue = InitialOf(initialValue)
    /\ ops = <<>>
    /\ seen = <<>>

\* One call or re-render: the value becomes v.
ToggleStep(op, v) ==
    /\ Len(ops) < MaxOps
    /\ toggleValue' = v
    /\ ops' = Append(ops, op)
    /\ seen' = Append(seen, v)
    /\ UNCHANGED initialValue
    /\ OnlyToggle

toggle == ToggleStep("toggle", AfterToggle(toggleValue))

\* setValue(true)
setTrue == ToggleStep("setTrue", TRUE)

\* setValue(false)
setFalse == ToggleStep("setFalse", FALSE)

\* A re-render: useState keeps the value and ignores the argument.
ToggleRerender == ToggleStep("render", toggleValue)

\* ======================================================= useOnClickOutside
\* The nodes an event can have as its target: the element the ref is attached
\* to, a descendant of it, a node outside of it; NoNode is null.
NoNode == "null"
Targets == {"el", "child", "outside", NoNode}
Elements == {"el", NoNode}
Handlers == {"h1", "h2"}
ListenedTypes == {"mousedown", "touchstart"}
EventTypes == ListenedTypes \cup {"click"}

\* el.contains(target): a node contains itself and its descendants, and not null.
Contains(el, target) == target \in (IF el = "el" THEN {"el", "child"} ELSE {})

\* if (!el || el.contains(event.target || null)) return; handler(event)
ShouldHandleUnlessSame(el, target) == el # NoNode /\ el # target

ShouldHandle(el, target) == el # NoNode /\ ~Contains(el, target)

\* document.addEventListener for the two types, with a listener that calls h.
AddListeners(ls, h) == ls \cup {[type |-> ty, handler |-> h] : ty \in ListenedTypes}

\* The cleanup: document.removeEventListener for the two types.
RemoveListeners(ls, h) == ls \ {[type |-> ty, handler |-> h] : ty \in ListenedTypes}

\* The handlers the listeners in ls call, in some order.
RECURSIVE HandlersOf(_)
HandlersOf(ls) ==
    IF ls = {} THEN <<>>
    ELSE LET l == CHOOSE x \in ls : TRUE IN <<l.handler>> \o HandlersOf(ls \ {l})

InitClickHook ==
    /\ cMounted = TRUE
    /\ element \in Elements
    /\ handler \in Handlers
    /\ listeners = AddListeners({}, handler)
    /\ events = <<>>
    /\ handled = <<>>

\* A render with handler h: the effect on [ref, handler] cleans up and adds the
\* listeners again when the handler is another one.
ClickRender(h) ==
    /\ cMounted
    /\ h # handler
    /\ handler' = h
    /\ listeners' = AddListeners(RemoveListeners(listeners, handler), h)
    /\ UNCHANGED <<cMounted, element, events, handled>>
    /\ OnlyClick

\* ref.current changes: the element is attached or detached.
SetElement(e) ==
    /\ cMounted
    /\ e # element
    /\ element' = e
    /\ UNCHANGED <<cMounted, handler, listeners, events, handled>>
    /\ OnlyClick

\* An event of type ty with target tg reaches document: every listener of that
\* type runs, reads ref.current and calls its handler or returns.
Dispatch(ty, tg) ==
    /\ Len(events) < MaxEvents
    /\ events' = Append(events, [type |-> ty, target |-> tg, mounted |-> cMounted])
    /\ LET called == HandlersOf({l \in listeners : l.type = ty /\ ShouldHandle(element, tg)})
       IN  handled' = handled \o [i \in 1..Len(called) |->
                                    [event |-> Len(events) + 1, handler |-> called[i]]]
    /\ UNCHANGED <<cMounted, element, handler, listeners>>
    /\ OnlyClick

\* Unmount: the cleanup of the effect removes the listeners.
ClickUnmount ==
    /\ cMounted
    /\ cMounted' = FALSE
    /\ listeners' = RemoveListeners(listeners, handler)
    /\ UNCHANGED <<element, handler, events, handled>>
    /\ OnlyClick

\* ================================================================ the clock
\* One millisecond passes. A timer runs within the millisecond of its
\* deadline: the clock does not pass a due timer.
Tick ==
    /\ now < MaxTime
    /\ Due(tTimers) = {}
    /\ Due(iTimers) = {}
    /\ Due(dTimers) = {}
    /\ now' = now + 1
    /\ UNCHANGED <<fetchVars, throttleVars, intervalVars, debounceVars, Untimed>>

\* =========================================================== specifications
\* A hook that is not in use.
FetchRest ==
    /\ fMounted = FALSE
    /\ url = "/a"
    /\ options = <<1, "GET">>
    /\ data = Null
    /\ loading = TRUE
    /\ error = Null
    /\ requests = <<>>
    /\ startedIdle = FALSE

ThrottleRest ==
    /\ tUnmount = <<[t |-> 0, timers |-> {}]>>
    /\ func = "f"
    /\ delay = 0
    /\ lastExecuted = 0
    /\ timeoutId = NoTimer
    /\ tTimers = {}
    /\ tSet = 0
    /\ tRenders = 0
    /\ calls = <<>>
    /\ invoked = <<>>

IntervalRest ==
    /\ iUnmount = <<[t |-> 0, timers |-> {}]>>
    /\ callback = "X"
    /\ iDelay = NullDelay
    /\ savedCallback = "X"
    /\ iTimers = {}
    /\ iSet = 0
    /\ armed = <<>>
    /\ fired = <<>>

DebounceRest ==
    /\ dUnmount = <<[t |-> 0, timers |-> {}]>>
    /\ value = "a"
    /\ dDelay = 2
    /\ debouncedValue = "a"
    /\ dTimers = {}
    /\ dSet = 0
    /\ changes = <<>>
    /\ published = <<[t |-> 0, value |-> "a", change |-> 0]>>

PreviousRest ==
    /\ ref = Undefined
    /\ renders = <<>>
    /\ returns = <<>>

ToggleRest ==
    /\ initialValue = Omitted
    /\ toggleValue = FALSE
    /\ ops = <<>>
    /\ seen = <<>>

ClickRest ==
    /\ cMounted = FALSE
    /\ element = NoNode
    /\ handler = "h1"
    /\ listeners = {}
    /\ events = <<>>
    /\ handled = <<>>

UntimedRest == PreviousRest /\ ToggleRest /\ ClickRest

\* ---- useFetch
InitFetch ==
    InitFetchHook /\ now = 0 /\ ThrottleRest /\ IntervalRest /\ DebounceRest /\ UntimedRest

NextFetch ==
    \/ \E u \in Urls, o \in OptionValues : FetchRender(u, o)
    \/ Refetch
    \/ \E i \in 1..Len(requests), outcome \in Outcomes, isError \in BOOLEAN : FetchSettle(i, outcome, isError)
    \/ FetchUnmount

SpecFetch == InitFetch /\ [][NextFetch]_vars

\* Some run in flight settles: fetch() and response.json() resolve or reject.
FetchSettles ==
    \E i \in 1..Len(requests), outcome \in Outcomes, isError \in BOOLEAN : FetchSettle(i, outcome, isError)

\* The mount with one descriptor; the renders after it range over all of them.
InitFetchLive == InitFetch /\ url = "/a" /\ options = <<1, "GET">>

\* The same hook when every run that was started settles in the end. Triggers
\* are under no fairness: the consumer may stop at any point.
SpecFetchLive == InitFetchLive /\ [][NextFetch]_vars /\ WF_vars(FetchSettles)

\* ---- useThrottle
InitThrottle ==
    /\ now \in StartClocks
    /\ InitThrottleHook /\ FetchRest /\ IntervalRest /\ DebounceRest /\ UntimedRest

NextThrottle ==
    \/ \E f \in Funcs, d \in Delays : ThrottleRender(f, d)
    \/ ThrottleCall
    \/ \E tm \in tTimers : ThrottleTimeout(tm)
    \/ ThrottleUnmount
    \/ Tick

SpecThrottle == InitThrottle /\ [][NextThrottle]_vars

\* ---- useInterval
InitInterval ==
    now = 0 /\ InitIntervalHook /\ FetchRest /\ ThrottleRest /\ DebounceRest /\ UntimedRest

NextInterval ==
    \/ \E c \in Callbacks, d \in IntervalDelays : IntervalRender(c, d)
    \/ \E tm \in iTimers : IntervalFire(tm)
    \/ IntervalUnmount
    \/ Tick

SpecInterval == InitInterval /\ [][NextInterval]_vars

\* ---- useDebounce
InitDebounce ==
    now = 0 /\ InitDebounceHook /\ FetchRest /\ ThrottleRest /\ IntervalRest /\ UntimedRest

NextDebounce ==
    \/ \E v \in Values, d \in DebounceDelays : DebounceTick(v, d)
    \/ \E tm \in dTimers : DebounceTimeout(tm)
    \/ DebounceUnmount
    \/ Tick

SpecDebounce == InitDebounce /\ [][NextDebounce]_vars

\* ---- usePrevious
TimedRest == now = 0 /\ FetchRest /\ ThrottleRest /\ IntervalRest /\ DebounceRest

InitPrevious == InitPreviousHook /\ TimedRest /\ ToggleRest /\ ClickRest

NextPrevious == \E v \in PreviousValues : PreviousRender(v)

SpecPrevious == InitPrevious /\ [][NextPrevious]_vars

\* ---- useToggle
InitToggle == InitToggleHook /\ TimedRest /\ PreviousRest /\ ClickRest

NextToggle ==
    \/ toggle
    \/ setTrue
    \/ setFalse
    \/ ToggleRerender

SpecToggle == InitToggle /\ [][NextToggle]_vars

\* ---- useOnClickOutside
InitClick == InitClickHook /\ TimedRest /\ PreviousRest /\ ToggleRest

NextClick ==
    \/ \E h \in Handlers : ClickRender(h)
    \/ \E e \in Elements : SetElement(e)
    \/ \E ty \in EventTypes, tg \in Targets : Dispatch(ty, tg)
    \/ ClickUnmount

SpecClick == InitClick /\ [][NextClick]_vars

\* ---- all the hooks side by side
Init ==
    /\ now = 0
    /\ InitFetchHook /\ InitThrottleHook /\ InitIntervalHook /\ InitDebounceHook
    /\ InitPreviousHook /\ InitToggleHook /\ InitClickHook

Next ==
    \/ NextFetch \/ NextThrottle \/ NextInterval \/ NextDebounce
    \/ NextPrevious \/ NextToggle \/ NextClick

Spec == Init /\ [][Next]_vars

\* ================================================================== properties
NoneInFlight == \A i \in 1..Len(requests) : requests[i].st # "pending"

\* C1: useFetch: once no run is in flight, the visible data/error are the outcome
\* of the run started by the most recent trigger, whatever the order in which
\* the runs settled.
FetchLatestTriggerWins ==
    (fMounted /\ NoneInFlight) =>
        LET k == Len(requests) IN
        IF requests[k].st = "ok"
        THEN data = Payload(k) /\ error = Null
        ELSE error # Null /\ error[3] = k

\* C2: useFetch: the settlement of a run that a later trigger has superseded
\* leaves data, error and loading unchanged.
FetchStaleSettlementDropped ==
    [][\A i \in 1..(Len(requests) - 1) :
          (requests[i].st = "pending" /\ requests'[i].st # "pending")
              => UNCHANGED <<data, error, loading>>]_vars

StartedByRefetch(k) ==
    /\ k > 1
    /\ requests[k].url = requests[k - 1].url
    /\ requests[k].options = requests[k - 1].options

\* Run k settles in this step.
Settles(k) == requests[k].st = "pending" /\ requests'[k].st # "pending"

\* C11: useFetch: refetch() called in a settled state (loading = false) sets
\* loading = true in the same step and starts one new run with the unchanged url
\* and options; and when that run settles, not superseded, loading becomes false
\* and data / error are that run's outcome (its payload and no error, or its error).
FetchRefetchWhenSettled ==
    [][/\ (Refetch /\ ~loading) =>
            (loading' /\ requests' = Append(requests, NewRequest(url, options)))
       /\ LET k == Len(requests) IN
          (fMounted /\ startedIdle /\ StartedByRefetch(k) /\ Settles(k)) =>
              /\ ~loading'
              /\ IF requests'[k].st = "ok"
                 THEN data' = Payload(k) /\ error' = Null
                 ELSE error' # Null /\ error'[3] = k]_vars

\* The state the consumer sees.
Visible ==
    IF loading THEN "Loading" ELSE IF error # Null THEN "Failed" ELSE "Succeeded"

\* C12: useFetch: while mounted, data / error / loading change only by a trigger
\* that starts a run and shows Loading, or by a settlement that leaves Loading;
\* a state that is Succeeded or Failed changes only by going to Loading on a
\* trigger.
FetchStateMachine ==
    [][fMounted =>
          \/ UNCHANGED <<data, error, loading>>
          \/ Len(requests') = Len(requests) + 1 /\ Visible' = "Loading"
          \/ Visible = "Loading" /\ Visible' # "Loading"]_vars

\* A step in which the url or options of the render differ from the last ones.
DescriptorChange == url' # url \/ options' # options

\* C13: useFetch: the mount, every render with a changed url or options and
\* every refetch() start exactly one run, with the url and options current at
\* that moment, and set loading = true and error = null in the same step; and
\* in every reachable state loading = true implies error = null.
FetchTriggerStartsOne ==
    /\ Len(requests) = 1 /\ requests[1] = NewRequest(url, options)
    /\ loading = TRUE /\ error = Null
    /\ [](loading = TRUE => error = Null)
    /\ [][/\ (DescriptorChange \/ Refetch) => Len(requests') = Len(requests) + 1
          /\ Len(requests') # Len(requests) =>
                /\ requests' = Append(requests, NewRequest(url', options'))
                /\ loading' /\ error' = Null]_vars

\* C13 witness: a run failed, then a changed render and a refetch() started a
\* run each, and the error the failed run had set is gone.
FetchRestartedAfterFailure ==
    /\ fMounted /\ loading /\ error = Null
    /\ Len(requests) = 3
    /\ requests[1].st = "failed"
    /\ ~StartedByRefetch(2)
    /\ StartedByRefetch(3)

\* Two options objects with the same fields.
SameOptions(o1, o2) == o1[2] = o2[2]

\* C14: useFetch: a render with the same url and with options equal by value to
\* the last ones, be it another object, starts no run and leaves data, error and
\* loading as they are.
FetchEqualDescriptorIsNoTrigger ==
    [][(\E o \in OptionValues : SameOptions(o, options) /\ FetchRender(url, o)) =>
          UNCHANGED <<requests, data, error, loading>>]_vars

\* C15: useFetch: when the current run fails (fetch rejects, the status is not
\* ok, or json() rejects) while mounted, error becomes an Error that carries a
\* message and loading becomes false in the same step.
FetchFailureSurfacesAsError ==
    [][LET k == Len(requests) IN
       (fMounted /\ Settles(k) /\ requests'[k].st = "failed") =>
          /\ error' # Null
          /\ error'[1] = "Error" /\ error'[2] # "" /\ error'[3] = k
          /\ ~loading']_vars

\* C15 witness: the current run rejected with a value that is not an Error, and
\* the consumer sees an Error with the fallback message.
FetchFailedWithNonError ==
    /\ fMounted /\ ~loading
    /\ requests[Len(requests)].st = "failed"
    /\ error = <<"Error", "An error occurred", Len(requests)>>

\* C16: useFetch: as long as no run has settled, loading = true, data = null and
\* error = null.
FetchInitiallyLoading ==
    (\A i \in 1..Len(requests) : requests[i].st = "pending") =>
        loading /\ data = Null /\ error = Null

\* C16 witness: triggers have come after the mount and nothing has settled yet.
FetchNothingSettledYet ==
    /\ fMounted
    /\ Len(requests) = 3
    /\ \A i \in 1..Len(requests) : requests[i].st = "pending"

CallsInWindow(L) == {n \in 1..Len(calls) : L < calls[n].t /\ calls[n].t < L + delay}

LastOf(S) == CHOOSE n \in S : \A m \in S : m <= n

\* C4: useThrottle: after an invocation of func at L, the calls made in
\* (L, L + delay) cause no invocation before L + delay and exactly one trailing
\* invocation at L + delay, with the arguments of the last of them; the
\* arguments of the others are never passed to func. (For one throttled
\* function: func and delay as at the mount.)
ThrottleTrailingCallWins ==
    (delay > 0 /\ tRenders = 0) =>
    \A i \in 1..Len(invoked) :
        LET L == invoked[i].t
            W == CallsInWindow(L)
        IN  /\ \A j \in 1..Len(invoked) : ~(L < invoked[j].t /\ invoked[j].t < L + delay)
            /\ (W # {} /\ now > L + delay) =>
                  /\ Cardinality({j \in 1..Len(invoked) :
                         invoked[j].trailing /\ invoked[j].t = L + delay}) = 1
                  /\ \A j \in 1..Len(invoked) :
                         (invoked[j].trailing /\ invoked[j].t = L + delay)
                             => invoked[j].args = calls[LastOf(W)].args
                  /\ \A n \in W \ {LastOf(W)} :
                         \A j \in 1..Len(invoked) : invoked[j].args # calls[n].args

\* C5: useThrottle: with delay > 0, any two invocations of func are at least
\* delay apart. (For one throttled function: func and delay as at the mount.)
ThrottleAtMostOncePerDelay ==
    (delay > 0 /\ tRenders = 0) =>
    \A i, j \in 1..Len(invoked) : i < j => invoked[j].t - invoked[i].t >= delay

\* C18: useThrottle: the first call ever made invokes func in the same step, with
\* its arguments, whatever the delay and the clock (a clock below the delay
\* included).
ThrottleFirstCallInvokes ==
    Len(calls) >= 1 =>
        /\ Len(invoked) >= 1
        /\ invoked[1].t = calls[1].t /\ invoked[1].args = calls[1].args /\ ~invoked[1].trailing

\* A call is made in this step.
Called == Len(calls') = Len(calls) + 1

\* C19: useThrottle: a call made at least delay after the last invocation of
\* func invokes func in the same step with the call's arguments, sets no timer
\* and records the time of the call as the time of the last invocation.
ThrottleCallAfterDelayInvokes ==
    [][(Called /\ invoked # <<>> /\ now - invoked[Len(invoked)].t >= delay) =>
          /\ invoked' = Append(invoked, [t |-> now, args |-> calls'[Len(calls')].args,
                                         func |-> func, trailing |-> FALSE])
          /\ UNCHANGED <<tTimers, tSet, timeoutId>>
          /\ lastExecuted' = now]_vars

\* C19 witness: with a positive delay, a call made exactly delay after the
\* previous invocation has invoked func itself.
ThrottleInvokedAtDelay ==
    /\ delay > 0
    /\ \E n \in 2..Len(invoked) :
          /\ ~invoked[n].trailing
          /\ invoked[n].t - invoked[n - 1].t = delay

\* C20: useThrottle: with delay 0 every call invokes func in the same step, in
\* call order, and no timer is ever set: n calls are n invocations. (For one
\* throttled function: func and delay as at the mount.)
ThrottleZeroDelayPassesThrough ==
    (delay = 0 /\ tRenders = 0) =>
        /\ tSet = 0 /\ tTimers = {}
        /\ Len(invoked) = Len(calls)
        /\ \A n \in 1..Len(calls) :
              invoked[n] = [t |-> calls[n].t, args |-> calls[n].args, func |-> func, trailing |-> FALSE]

\* C20 witness: with delay 0, several calls, two of them in the same
\* millisecond, have all invoked func.
ThrottleZeroDelayBurst ==
    /\ delay = 0 /\ tRenders = 0
    /\ Len(calls) >= 3
    /\ Len(invoked) = Len(calls)
    /\ \E n \in 2..Len(calls) : calls[n].t = calls[n - 1].t

\* The timeout tm fires in this step.
Fires(tm) == tm \in tTimers /\ tm \notin tTimers' /\ Len(invoked') = Len(invoked) + 1

\* C21: useThrottle: when a timeout invokes func at time f, lastExecuted becomes
\* f; and a call made at t with f <= t < f + delay, the trailing invocation at f
\* being the last one, invokes nothing and sets a timeout for f + delay with
\* its arguments.
ThrottleTrailingRestartsWindow ==
    [][/\ \A tm \in tTimers : Fires(tm) => lastExecuted' = now
       /\ (Called /\ invoked # <<>>) =>
             LET f == invoked[Len(invoked)].t IN
             (invoked[Len(invoked)].trailing /\ f <= now /\ now < f + delay) =>
                 /\ invoked' = invoked
                 /\ \E tm \in tTimers' :
                       /\ tm.id = timeoutId'
                       /\ tm.deadline = f + delay
                       /\ tm.args = calls'[Len(calls')].args]_vars

\* C21 witness: after a trailing invocation at f, a later call inside
\* (f, f + delay) is waiting for f + delay.
ThrottleDeferredAfterTrailing ==
    /\ delay > 0 /\ tRenders = 0
    /\ invoked # <<>> /\ calls # <<>>
    /\ LET f == invoked[Len(invoked)].t IN
       /\ invoked[Len(invoked)].trailing
       /\ calls[Len(calls)].t > f
       /\ \E tm \in tTimers :
             tm.deadline = f + delay /\ tm.args = calls[Len(calls)].args

\* C22: useThrottle: after a render with another func or delay, the first call
\* of the new throttled function invokes func in the same step, whatever was
\* invoked before, and no timeout set through an earlier throttled function
\* invokes anything.
ThrottleFreshAfterChange ==
    [][/\ (Called /\ calls # <<>> /\ calls[Len(calls)].render # tRenders) =>
             invoked' = Append(invoked, [t |-> now, args |-> calls'[Len(calls')].args,
                                        func |-> func, trailing |-> FALSE])
       /\ \A tm \in tTimers : Fires(tm) => tm.render = tRenders]_vars

\* C31: useThrottle: at most one timeout is pending; and a call of a throttled
\* function (func and delay as at the mount) made while a timeout is pending
\* invokes nothing and leaves one timeout, with the arguments of this call and
\* due at lastExecuted + delay.
ThrottleSingleTimer ==
    [][/\ Cardinality(tTimers) <= 1
       /\ (tRenders = 0 /\ Called /\ tTimers # {}) =>
             /\ invoked' = invoked
             /\ \E tm \in tTimers' :
                   /\ tTimers' = {tm}
                   /\ tm.args = calls'[Len(calls')].args
                   /\ tm.deadline = lastExecuted + delay]_vars

\* C38: useThrottle: every invocation of func has the arguments of a call made
\* before it or with it, and no two invocations have the arguments of the same
\* call.
ThrottleArgsDeliveredAtMostOnce ==
    /\ \A j \in 1..Len(invoked) :
          \E n \in 1..Len(calls) : invoked[j].args = calls[n].args /\ calls[n].t <= invoked[j].t
    /\ \A i, j \in 1..Len(invoked) : invoked[i].args = invoked[j].args => i = j

\* C38 witness: of three calls the first was invoked at once, the second was
\* dropped and the third was invoked by the timeout.
ThrottleInvokedDroppedTrailing ==
    /\ Len(calls) = 3
    /\ Len(invoked) = 2
    /\ tTimers = {}
    /\ invoked[1].args = calls[1].args /\ ~invoked[1].trailing
    /\ invoked[2].args = calls[3].args /\ invoked[2].trailing

\* C8: useThrottle: func is never invoked after the consumer has detached.
ThrottleNoInvocationAfterDetach == [][tUnmount # <<>> => invoked' = invoked]_vars

\* C6: useInterval: every firing of the interval invokes the callback of the
\* most recent render.
IntervalInvokesLatestCallback ==
    [][fired' # fired => fired'[Len(fired')].cb = callback']_vars

\* C6 witness: one interval has fired, its callback was replaced, and it has
\* fired again.
IntervalFiredAcrossCallbackChange ==
    \E i, j \in 1..Len(fired) :
        i < j /\ fired[i].id = fired[j].id /\ fired[i].cb # fired[j].cb

\* C9: useInterval: at detach the interval is cleared, and after it the callback
\* is not invoked again.
IntervalNoInvocationAfterDetach ==
    [][/\ iUnmount' # <<>> => iTimers' = {}
       /\ iUnmount # <<>> => fired' = fired]_vars

\* C9 witness: the consumer detached with an interval active, and the time at
\* which that interval would have fired next has passed.
IntervalDetachedWhileActive ==
    /\ iUnmount # <<>>
    /\ \E tm \in iUnmount[1].timers : now > tm.deadline

\* The deadline of the timer armed by change number n.
DeadlineOf(n) == changes[n].t + changes[n].delay

PublishesOf(n) == {p \in 1..Len(published) : published[p].change = n}

\* The interval tm invokes the callback in this step.
IntervalFires(tm) ==
    /\ tm \in iTimers
    /\ Len(fired') = Len(fired) + 1
    /\ fired'[Len(fired')].id = tm.id

\* C25: useInterval: while the delay is null no interval is set and no step
\* invokes the callback; the render that supplies a delay again sets one
\* interval of that period, counted from the render; and an interval invokes the
\* callback at its deadline and is due again one period later.
IntervalPausedWhileNull ==
    [][/\ iDelay = NullDelay => fired' = fired
       /\ (iUnmount = <<>> /\ iDelay' = NullDelay) => iTimers' = {}
       /\ (iUnmount' = <<>> /\ iDelay = NullDelay /\ iDelay' # NullDelay) =>
             iTimers' = {[id |-> iSet', deadline |-> now + Every(iDelay'), every |-> Every(iDelay')]}
       /\ \A tm \in iTimers : IntervalFires(tm) =>
             /\ now = tm.deadline
             /\ [tm EXCEPT !.deadline = now + tm.every] \in iTimers']_vars

\* C25 witness: an interval was active, the delay became null, a delay was
\* supplied again, and the callback was invoked one period after that render.
IntervalResumedAfterNull ==
    \E k \in 2..Len(armed) :
        /\ armed[k].from = NullDelay
        /\ \E j \in 1..Len(fired) : fired[j].id < k
        /\ \E j \in 1..Len(fired) : fired[j].id = k /\ fired[j].t = armed[k].t + armed[k].every

\* C26: useInterval: a render that changes the delay from one number to
\* another leaves exactly one interval, of the new period and counted from the
\* render; only the interval set last invokes the callback, and the first
\* invocation of an interval is one period after it was set.
IntervalPeriodChangeRestarts ==
    [][/\ (iUnmount' = <<>> /\ iDelay # NullDelay /\ iDelay' # NullDelay /\ iDelay' # iDelay) =>
             iTimers' = {[id |-> iSet + 1, deadline |-> now + Every(iDelay'), every |-> Every(iDelay')]}
       /\ \A tm \in iTimers : IntervalFires(tm) =>
             /\ tm.id = Len(armed)
             /\ now >= armed[tm.id].t + armed[tm.id].every]_vars

\* C26 witness: the delay changed from p to another number q before the old
\* interval was due, the old deadline has passed with no invocation, and the
\* callback was invoked q after the change.
IntervalRestartedWithNewPeriod ==
    /\ Len(armed) = 2
    /\ armed[2].from # NullDelay
    /\ armed[2].every > armed[1].every
    /\ armed[2].t > armed[1].t
    /\ armed[2].t < armed[1].t + armed[1].every
    /\ Len(fired) = 1
    /\ fired[1].id = 2 /\ fired[1].t = armed[2].t + armed[2].every

\* C27: useInterval: with delay 0 no interval is set, and no step invokes the
\* callback.
IntervalZeroDelayIdle ==
    [][(iUnmount = <<>> /\ iDelay = 0) => (iTimers = {} /\ fired' = fired)]_vars

\* C3: useDebounce: a publish happens exactly delay after the input change it
\* carries; a change followed by another one less than delay later is never
\* published; the output is the last published value all along; and once delay
\* has passed since the last change, that change has been published exactly once.
DebounceQuiescence ==
    /\ debouncedValue = published[Len(published)].value
    /\ \A p \in 2..Len(published) :
          /\ published[p].t = DeadlineOf(published[p].change)
          /\ published[p].value = changes[published[p].change].value
    /\ \A n \in 1..Len(changes) : Cardinality(PublishesOf(n)) <= 1
    /\ \A n \in 1..(Len(changes) - 1) :
          changes[n + 1].t < DeadlineOf(n) => PublishesOf(n) = {}
    /\ LET n == Len(changes) IN
          (n > 0 /\ now > DeadlineOf(n) /\ (dUnmount = <<>> \/ dUnmount[1].t >= DeadlineOf(n)))
              => Cardinality(PublishesOf(n)) = 1

\* C3 witness: three changes, each less than delay after the one before, and
\* the one publish that follows them.
DebounceBurstPublished ==
    /\ Len(changes) = 3
    /\ changes[2].t < DeadlineOf(1)
    /\ changes[3].t < DeadlineOf(2)
    /\ changes[1].t < changes[3].t
    /\ Len(published) = 2
    /\ published[2].change = 3

\* C23: useDebounce: on the first tick the output is the input, at that moment,
\* and it stays the input as long as the input has not changed, for every input
\* and delay.
DebounceFirstOutputIsInput ==
    /\ published[1].t = 0 /\ published[1].change = 0
    /\ Len(changes) = 0 => (debouncedValue = value /\ published = <<[t |-> 0, value |-> value, change |-> 0]>>)

\* C23 witness: more than the delay after the first tick, with the input as it
\* was, the output is that input and no timer was ever armed.
DebounceFirstOutputStays ==
    /\ Len(changes) = 0 /\ dSet = 0
    /\ now > dDelay
    /\ debouncedValue = value

\* C24: useDebounce: a tick that changes the delay and not the input leaves the
\* pending timer as it is; a timer is armed for the delay of the tick that arms
\* it; and a timer fires delay after its change, with the delay of that change.
DebounceDelayChangeNotRetroactive ==
    [][/\ (dDelay' # dDelay /\ value' = value) => dTimers' = dTimers
       /\ Len(changes') = Len(changes) + 1 =>
             \A tm \in dTimers' : tm.deadline = now + dDelay'
       /\ \A tm \in dTimers :
             (tm \notin dTimers' /\ Len(published') = Len(published) + 1) =>
                 now = changes[tm.change].t + changes[tm.change].delay]_vars

\* C24 witness: the delay changed while a timer was pending, and the timer is
\* due at the deadline it was armed with.
DebounceDueAfterDelayChange ==
    /\ dUnmount = <<>>
    /\ \E tm \in dTimers :
          /\ dDelay # changes[tm.change].delay
          /\ tm.deadline = changes[tm.change].t + changes[tm.change].delay
          /\ now = tm.deadline

\* C10: useDebounce: at detach the pending timer is cancelled, and after it
\* nothing is published and the output does not change.
DebounceNoPublishAfterDetach ==
    [][/\ dUnmount' # <<>> => dTimers' = {}
       /\ dUnmount # <<>> => (published' = published /\ debouncedValue' = debouncedValue)]_vars

\* C10 witness: the consumer detached with a timer pending, and the deadline of
\* that timer has passed.
DebounceDetachedWhilePending ==
    /\ dUnmount # <<>>
    /\ \E tm \in dUnmount[1].timers : now > tm.deadline

\* C35: useFetch: while the run started by the most recent trigger is in flight
\* loading is true, and loading goes from true to false only in the step that
\* settles that run.
FetchLoadingUntilLatestSettles ==
    [][/\ (fMounted /\ requests[Len(requests)].st = "pending") => loading = TRUE
       /\ (loading = TRUE /\ loading' = FALSE) => Settles(Len(requests))]_vars

\* C36: useFetch: data changes only in the step in which a run settles with
\* success, and then to that run's payload; a trigger and a failed settlement
\* leave it as it is.
FetchDataChangesOnlyOnSuccess ==
    [][data' # data =>
          \E k \in 1..Len(requests) :
              Settles(k) /\ requests'[k].st = "ok" /\ data' = Payload(k)]_vars

\* C36 witness: the first run succeeded, the second failed and a third has been
\* started: data is still the payload of the first.
FetchDataKeptAcrossFailureAndTrigger ==
    /\ fMounted
    /\ Len(requests) = 3
    /\ requests[1].st = "ok"
    /\ requests[2].st = "failed"
    /\ requests[3].st = "pending"
    /\ ~requests[2].detached
    /\ data = Payload(1)

IntervalActiveIffAttachedAndPeriod ==
    /\ (iTimers # {}) <=> (iUnmount = <<>> /\ iDelay # NullDelay)
    /\ Cardinality(iTimers) <= 1

\* C33 witness: a second interval replaced the first and fired, it was the one
\* active, and after the detach none is.
IntervalSecondActiveThenDetached ==
    /\ iSet = 2
    /\ fired # <<>>
    /\ fired[Len(fired)].id = 2
    /\ iUnmount # <<>>
    /\ iTimers = {}

\* C34: useInterval: a render with a new callback and the same delay leaves the
\* active interval, its next deadline and its period as they are, and sets no
\* interval.
IntervalCallbackChangeKeepsTimer ==
    [][(iUnmount = <<>> /\ callback' # callback /\ iDelay' = iDelay) =>
          (iTimers' = iTimers /\ iSet' = iSet /\ armed' = armed)]_vars

\* C34 witness: an interval with a period of more than one tick fired, the
\* callback was replaced, and the next firing of the same interval came exactly
\* one period after the previous.
IntervalOnTimeAcrossCallbackChange ==
    \E j \in 1..(Len(fired) - 1) :
        /\ fired[j].id = fired[j + 1].id
        /\ fired[j].cb # fired[j + 1].cb
        /\ armed[fired[j].id].every > 1
        /\ fired[j + 1].t - fired[j].t = armed[fired[j].id].every

\* C32: useDebounce: at most one timer is pending, it is the timer of the latest
\* input change, and a timer that fires is that one: the timer of a superseded
\* change never publishes.
DebounceSingleTimer ==
    [][/\ Cardinality(dTimers) <= 1
       /\ \A tm \in dTimers : tm.change = Len(changes)
       /\ Len(published') > Len(published) =>
             published'[Len(published')].change = Len(changes)]_vars

\* C32 witness: the input changed again while the timer of the first change was
\* pending; the deadline of the first timer has passed, nothing was published
\* for it, and the one pending timer is that of the second change.
DebounceSupersededSilent ==
    /\ Len(changes) = 2
    /\ changes[2].t < DeadlineOf(1)
    /\ now >= DeadlineOf(1)
    /\ PublishesOf(1) = {}
    /\ Cardinality(dTimers) = 1
    /\ \A tm \in dTimers : tm.change = 2

\* C28: usePrevious: the first render returns undefined, and render k > 1
\* returns the value of render k - 1, whether or not it equals the value of
\* render k and also when it is null or undefined.
PreviousReturnsValueBefore ==
    /\ Len(returns) = Len(renders)
    /\ returns[1] = Undefined
    /\ \A k \in 2..Len(renders) : returns[k] = renders[k - 1]

\* C28 witness: four renders, with null, undefined and the same value twice.
PreviousAcrossRepeatsAndNull ==
    /\ renders = <<"null", "undefined", "x", "x">>
    /\ returns = <<"undefined", "null", "undefined", "x">>

\* The value useToggle should have after the calls o, from v.
RECURSIVE Applied(_, _)
Applied(o, v) ==
    IF o = <<>> THEN v
    ELSE LET prev == Applied(SubSeq(o, 1, Len(o) - 1), v)
             last == o[Len(o)]
         IN  CASE last = "toggle" -> ~prev
               [] last = "setTrue" -> TRUE
               [] last = "setFalse" -> FALSE
               [] last = "render" -> prev

\* The value before call k.
Before(k) ==
    IF k = 1
    THEN (IF initialValue = <<>> THEN FALSE ELSE initialValue[1])
    ELSE seen[k - 1]

\* C29: useToggle: the value is what the calls made so far give when applied
\* in order to the initial value (false when omitted): toggle negates, two
\* toggles in a row restore, setTrue and setFalse give true and false whatever
\* the value was, and a re-render changes nothing.
ToggleValueIsCallsApplied ==
    /\ toggleValue = Applied(ops, Before(1))
    /\ \A k \in 1..Len(ops) :
          /\ seen[k] = Applied(SubSeq(ops, 1, k), Before(1))
          /\ ops[k] = "toggle" => seen[k] = ~Before(k)
          /\ (k > 1 /\ ops[k] = "toggle" /\ ops[k - 1] = "toggle") => seen[k] = Before(k - 1)
          /\ ops[k] = "setTrue" => seen[k] = TRUE
          /\ ops[k] = "setFalse" => seen[k] = FALSE
          /\ ops[k] = "render" => seen[k] = Before(k)

\* C29 witness: from the default, setTrue twice, then two toggles in a row.
ToggleTwiceRestores ==
    /\ initialValue = <<>>
    /\ ops = <<"setTrue", "setTrue", "toggle", "toggle">>
    /\ seen = <<TRUE, TRUE, FALSE, TRUE>>

\* An event is dispatched in this step.
Dispatched == Len(events') = Len(events) + 1

\* C30: useOnClickOutside: an event invokes the handler of the last render,
\* once, if and only if it is a mousedown or a touchstart, the hook is mounted,
\* ref.current is an element and that element does not contain the target of
\* the event; no other step invokes a handler.
ClickOutsideInvokesHandler ==
    [][IF /\ Dispatched
          /\ events'[Len(events')].type \in ListenedTypes
          /\ cMounted
          /\ element # NoNode
          /\ ~Contains(element, events'[Len(events')].target)
       THEN handled' = Append(handled, [event |-> Len(events'), handler |-> handler])
       ELSE handled' = handled]_vars

\* C30 witness: a mousedown outside the element was handled, a touchstart on
\* a descendant of the element was not, and neither was a mousedown outside
\* after the unmount.
ClickOutsideInsideAndAfterUnmount ==
    /\ element = "el"
    /\ events = <<[type |-> "mousedown", target |-> "outside", mounted |-> TRUE],
                  [type |-> "touchstart", target |-> "child", mounted |-> TRUE],
                  [type |-> "mousedown", target |-> "outside", mounted |-> FALSE]>>
    /\ Len(handled) = 1
    /\ handled[1].event = 1

====
